---- MODULE Spec2Model ----
(***************************************************************************)
(* A model of the cast instruction (console/program, operation/cast.rs),   *)
(* of the opcode mnemonic (opcode/mod.rs) and of the ledger record query   *)
(* (vm/compiler, ledger/find.rs) of snarkVM.                               *)
(*                                                                         *)
(* Four specifications share the module:                                   *)
(*   Spec           Cast::evaluate on a register stack                     *)
(*   SpecOutputType Cast::output_type on a list of input types             *)
(*   SpecBytes      Cast::write_le / Cast::read_le on a byte buffer        *)
(*   SpecLedger     Ledger::find_records over a record source              *)
(*   SpecCompare    the All, Spent and Unspent scans of one ledger state   *)
(*   SpecDisplay    Display for Opcode and Display for Cast                *)
(***************************************************************************)
EXTENDS Integers, Sequences, FiniteSets, TLC

VARIABLES
    \* ---- Cast::evaluate ----
    stack,      \* the register stack: register i holds stack[i], registers above Len(stack) are unset
    pc,         \* "ready" before the instruction is evaluated, "done" after
    cast,       \* the instruction that was evaluated (operands, destination, value_type)
    report,     \* how Stack::matches_register reports a mismatch in this execution
    before,     \* the register stack at the call of evaluate
    outcome,    \* what evaluate returned: "Ok", an error of the taxonomy, or "Panic"
    \* ---- Cast::output_type ----
    input_types,  \* the input types handed to output_type
    type_pc,      \* "ready" before output_type is called, "done" after
    type_cast,    \* the instruction output_type was called on
    type_result,  \* what output_type returned: [outcome, type]
    \* ---- Cast::write_le / Cast::read_le ----
    wire_cast,    \* the instruction handed to write_le
    buffer,       \* the bytes of the writer, then of the reader
    wire_pc,      \* "build", "written" (write_le returned), "read" (read_le returned)
    written,      \* what write_le returned: "Ok" or "FormatError"
    decoded,      \* what read_le returned: [ok, cast] or [ok, error]
    \* ---- Ledger::find_records ----
    records,         \* the record source: (commitment, record) in iteration order
    tags,            \* the ledger's tag index
    serial_numbers,  \* the ledger's serial number index
    scan,            \* the sequence find_records returned, as far as it was pulled; NoScan without one
    failed,          \* the source positions of this scan at which a derivation or a probe failed
    \* ---- three scans of one ledger state ----
    trio,            \* what find_records(V, All), (V, Spent) and (V, Unspent) yielded; NoTrio without
    \* ---- Display ----
    display          \* the last formatting: what was formatted and how fmt ended; NoDisplay without

evalVars == <<stack, pc, cast, report, before, outcome>>
typeVars == <<input_types, type_pc, type_cast, type_result>>
wireVars == <<wire_cast, buffer, wire_pc, written, decoded>>
ledgerVars == <<records, tags, serial_numbers, scan, failed>>
compareVars == <<trio>>
displayVars == <<display>>

None == "None"

\* ------------------------------------------------------------------------
\* Bounds of the model
\* ------------------------------------------------------------------------

\* The number of registers earlier instructions may have written, and the
\* number of input types output_type may be handed.
MaxInputs == 4

\* The number of nested calls the thread's stack has room for.
StackFrames == 6

\* N::MAX_OPERANDS, the network's bound on the operands of an instruction.
MAX_OPERANDS == 3

\* The number of records the ledger may hold.
MaxRecords == 2

\* ------------------------------------------------------------------------
\* Value model
\* ------------------------------------------------------------------------

\* A u64 is kept as four 16-bit limbs, least significant first.
U64_100 == <<100, 0, 0, 0>>
U64_2P52_MINUS_1 == <<65535, 65535, 65535, 15>>
U64_2P52 == <<0, 0, 0, 16>>

Pow2(n) == 2 ^ n

\* The 64 bits of a u64, least significant first (1-based: bit i of the code is [i + 1]).
to_bits_le(u) == [i \in 1..64 |-> (u[((i - 1) \div 16) + 1] \div Pow2((i - 1) % 16)) % 2 = 1]

LiteralType(t) == [variant |-> "Literal", type |-> t]
InterfaceType(n) == [variant |-> "Interface", name |-> n]

Literal(t, v) == [variant |-> "Literal", type |-> t, value |-> v]

StackPlaintext(p) == [variant |-> "Plaintext", plaintext |-> p]
StackRecord(r) == [variant |-> "Record", record |-> r]

RegisterPlaintext(pt) == [variant |-> "Plaintext", type |-> pt]
RegisterRecord(n) == [variant |-> "Record", name |-> n]

ValueConstant(pt) == [variant |-> "Constant", type |-> pt]
ValuePublic(pt) == [variant |-> "Public", type |-> pt]
ValuePrivate(pt) == [variant |-> "Private", type |-> pt]
ValueRecord(n) == [variant |-> "Record", name |-> n]

\* RegisterType::from(ValueType)
RegisterTypeFrom(vt) ==
    IF vt.variant = "Record" THEN RegisterRecord(vt.name) ELSE RegisterPlaintext(vt.type)

ADDRESS_A == Literal("address", "aleo1a")

\* A record some earlier instruction left in a register.
SomeRecord ==
    [owner |-> [variant |-> "Public", value |-> "aleo1a"],
     balance |-> [variant |-> "Public", value |-> U64_100],
     entries |-> << >>]

\* The values a register may hold.
StackValues ==
    { StackPlaintext(ADDRESS_A),
      StackPlaintext(Literal("u64", U64_2P52_MINUS_1)),
      StackPlaintext(Literal("u64", U64_2P52)),
      StackPlaintext(Literal("field", "1field")),
      StackRecord(SomeRecord) }

\* ------------------------------------------------------------------------
\* The program's type registry
\* ------------------------------------------------------------------------

\* Interface name -> ordered (member name, member type) list.
InterfaceNames == {"point", "msg"}
InterfaceMembers(n) ==
    IF n = "point"
    THEN << <<"x", LiteralType("u64")>>, <<"y", LiteralType("field")>> >>
    ELSE << <<"to", LiteralType("address")>> >>

\* Record name -> owner and balance visibility and ordered (entry name, entry type) list.
RecordNames == {"token", "nft", "acct"}
RecordType(n) ==
    IF n = "token"
    THEN [owner_public |-> FALSE, balance_public |-> FALSE, entries |-> << >>]
    ELSE IF n = "nft"
    THEN [owner_public |-> TRUE, balance_public |-> FALSE,
          entries |-> << <<"id", [variant |-> "Public", type |-> LiteralType("field")]>> >>]
    ELSE [owner_public |-> FALSE, balance_public |-> TRUE,
          entries |-> << <<"holder", [variant |-> "Private", type |-> LiteralType("address")]>>,
                         <<"limit", [variant |-> "Constant", type |-> LiteralType("u64")]>> >>]

Found(v) == [ok |-> TRUE, value |-> v]
Failed(e) == [ok |-> FALSE, error |-> e]

get_interface(n) ==
    IF n \in InterfaceNames THEN Found(InterfaceMembers(n)) ELSE Failed("LookupError")

get_record(n) ==
    IF n \in RecordNames THEN Found(RecordType(n)) ELSE Failed("LookupError")

\* The targets a cast is evaluated against.
ValueTypes ==
    { ValuePublic(LiteralType("u64")),
      ValuePrivate(InterfaceType("point")),
      ValueConstant(InterfaceType("msg")),
      ValuePublic(InterfaceType("undefined")),
      ValueRecord("token"), ValueRecord("nft"), ValueRecord("acct"),
      ValueRecord("undefined") }

\* ------------------------------------------------------------------------
\* The register stack
\* ------------------------------------------------------------------------

\* Stack::load of a register operand.
load(stk, operand) ==
    IF operand \in 1..Len(stk) THEN Found(stk[operand]) ELSE Failed("LoadError")

\* Stack::store: a register is written at most once.
store(stk, register, value) ==
    IF register = Len(stk) + 1 THEN Found(Append(stk, value)) ELSE Failed("StoreError")

\* The register type of a plaintext value.
TypeOf(plaintext) == RegisterPlaintext(LiteralType(plaintext.type))

\* Stack::matches_register: "true", "false" or "error"; how a mismatch is
\* reported (false or an error) is the collaborator's choice `mismatch`.
matches_register(value, register_type, mismatch) ==
    IF value.variant = "Plaintext" /\ TypeOf(value.plaintext) = register_type
    THEN "true"
    ELSE mismatch

\* IndexMap::insert: a new key is appended, an existing key keeps its place.
IndexMapInsert(map, key, value) ==
    IF \E i \in 1..Len(map) : map[i][1] = key
    THEN [i \in 1..Len(map) |-> IF map[i][1] = key THEN <<key, value>> ELSE map[i]]
    ELSE Append(map, <<key, value>>)

\* Record::new: the entry names are distinct.
RecordNew(owner, balance, entries) ==
    IF \A i, j \in 1..Len(entries) : entries[i][1] = entries[j][1] => i = j
    THEN Found([owner |-> owner, balance |-> balance, entries |-> entries])
    ELSE Failed("InvalidValueError")

\* ------------------------------------------------------------------------
\* Cast::evaluate
\* ------------------------------------------------------------------------

Ok == "Ok"
Done(v) == [outcome |-> Ok, value |-> v]
Fail(e) == [outcome |-> e]

\* Loads the operands in order; the first unresolved operand fails the load.
LoadOperands(stk, operands) ==
    IF \A i \in 1..Len(operands) : load(stk, operands[i]).ok
    THEN Found([i \in 1..Len(operands) |-> load(stk, operands[i]).value])
    ELSE Failed("LoadError")

\* The interface members loop: inputs.iter().zip_eq(interface.members()).
\* zip_eq panics when one side ends before the other.
RECURSIVE InterfaceLoop(_, _, _, _, _)
InterfaceLoop(inputs, decl, i, members, mismatch) ==
    IF i > Len(inputs) /\ i > Len(decl) THEN Done(members)
    ELSE IF i > Len(inputs) \/ i > Len(decl) THEN Fail("Panic")
    ELSE LET member == inputs[i]
             member_name == decl[i][1]
             register_type == RegisterPlaintext(decl[i][2])
         IN  IF member.variant = "Record" THEN Fail("IllegalCastError")
             ELSE IF matches_register(StackPlaintext(member.plaintext), register_type, mismatch) = "error"
             THEN Fail("TypeMismatchError")
             ELSE InterfaceLoop(inputs, decl, i + 1,
                                IndexMapInsert(members, member_name, member.plaintext), mismatch)

\* The record owner, from inputs[0].
RecordOwner(input, record_type) ==
    IF input.variant = "Plaintext" /\ input.plaintext.type = "address"
    THEN Done(IF record_type.owner_public
              THEN [variant |-> "Public", value |-> input.plaintext.value]
              ELSE [variant |-> "Private", value |-> Literal("address", input.plaintext.value)])
    ELSE Fail("InvalidValueError")

\* balance.to_bits_le()[52..].iter().all(|bit| !bit)
BalanceBitsClear(balance) == \A i \in 53..64 : ~to_bits_le(balance)[i]

\* The record balance, from inputs[1].
RecordBalance(input, record_type) ==
    IF input.variant = "Plaintext" /\ input.plaintext.type = "u64"
    THEN IF BalanceBitsClear(input.plaintext.value)
         THEN Done(IF record_type.balance_public
                   THEN [variant |-> "Public", value |-> input.plaintext.value]
                   ELSE [variant |-> "Private", value |-> Literal("u64", input.plaintext.value)])
         ELSE Fail("InvalidValueError")
    ELSE Fail("InvalidValueError")

\* The inputs the entries loop iterates: inputs.iter().
EntryInputs(inputs) == inputs

\* The record entries loop: inputs.iter().zip_eq(record_type.entries()).
RECURSIVE EntriesLoop(_, _, _, _, _)
EntriesLoop(inputs, decl, i, entries, mismatch) ==
    IF i > Len(inputs) /\ i > Len(decl) THEN Done(entries)
    ELSE IF i > Len(inputs) \/ i > Len(decl) THEN Fail("Panic")
    ELSE LET entry == inputs[i]
             entry_name == decl[i][1]
             entry_type == decl[i][2]
             register_type == RegisterTypeFrom([variant |-> entry_type.variant, type |-> entry_type.type])
         IN  IF entry.variant = "Record" THEN Fail("IllegalCastError")
             ELSE IF matches_register(StackPlaintext(entry.plaintext), register_type, mismatch) = "error"
             THEN Fail("TypeMismatchError")
             ELSE EntriesLoop(inputs, decl, i + 1,
                              IndexMapInsert(entries, entry_name,
                                  [variant |-> entry_type.variant, plaintext |-> entry.plaintext]),
                              mismatch)

\* The value a cast to an interface produces.
CastInterface(inputs, interface_name, mismatch) ==
    IF Len(inputs) = 0 THEN Fail("ArityError")
    ELSE LET interface == get_interface(interface_name) IN
         IF ~interface.ok THEN Fail(interface.error)
         ELSE LET members == InterfaceLoop(inputs, interface.value, 1, << >>, mismatch) IN
              IF members.outcome # Ok THEN members
              ELSE Done(StackPlaintext([variant |-> "Interface", members |-> members.value]))

\* The value a cast to a record produces.
CastRecord(inputs, record_name, mismatch) ==
    IF Len(inputs) < 2 THEN Fail("ArityError")
    ELSE LET record_type == get_record(record_name) IN
         IF ~record_type.ok THEN Fail(record_type.error)
         ELSE LET owner == RecordOwner(inputs[1], record_type.value) IN
              IF owner.outcome # Ok THEN owner
              ELSE LET balance == RecordBalance(inputs[2], record_type.value) IN
                   IF balance.outcome # Ok THEN balance
                   ELSE LET entries == EntriesLoop(EntryInputs(inputs), record_type.value.entries,
                                                   1, << >>, mismatch) IN
                        IF entries.outcome # Ok THEN entries
                        ELSE LET record == RecordNew(owner.value, balance.value, entries.value) IN
                             IF ~record.ok THEN Fail(record.error)
                             ELSE Done(StackRecord(record.value))

\* The value the cast produces from the loaded inputs.
CastValue(inputs, value_type, mismatch) ==
    IF value_type.variant = "Record" THEN CastRecord(inputs, value_type.name, mismatch)
    ELSE IF value_type.type.variant = "Literal" THEN Fail("UnsupportedCastError")
    ELSE CastInterface(inputs, value_type.type.name, mismatch)

\* StoreResult with the destination written before the produced value is looked at.
StoreResultEarly(stk, destination, produced) ==
    LET stored == store(stk, destination, IF produced.outcome = Ok THEN produced.value ELSE None) IN
    IF stored.ok THEN [outcome |-> produced.outcome, stack |-> stored.value]
    ELSE [outcome |-> stored.error, stack |-> stk]

\* stack.store(&self.destination, value): the last step, reached only with a value.
StoreResult(stk, destination, produced) ==
    IF produced.outcome # Ok THEN [outcome |-> produced.outcome, stack |-> stk]
    ELSE LET stored == store(stk, destination, produced.value) IN
         IF stored.ok THEN [outcome |-> Ok, stack |-> stored.value]
         ELSE [outcome |-> stored.error, stack |-> stk]

\* Cast::evaluate: the outcome and the register stack it leaves.
evaluate(stk, c, mismatch) ==
    LET inputs == LoadOperands(stk, c.operands) IN
    IF ~inputs.ok THEN [outcome |-> inputs.error, stack |-> stk]
    ELSE StoreResult(stk, c.destination, CastValue(inputs.value, c.value_type, mismatch))

\* ------------------------------------------------------------------------
\* Spec: a register stack filled by earlier instructions, then one cast
\* ------------------------------------------------------------------------

\* The operands of a cast over the first n registers.
Operands(n) == [i \in 1..n |-> i]

Casts(stk) ==
    [operands : {Operands(n) : n \in 0..MaxInputs},
     destination : {1, Len(stk) + 1},
     value_type : ValueTypes]

EvalInit ==
    /\ stack = << >>
    /\ pc = "ready"
    /\ cast = None
    /\ report = None
    /\ before = << >>
    /\ outcome = None

\* An earlier instruction writes the next register.
Populate ==
    /\ pc = "ready"
    /\ Len(stack) < MaxInputs
    /\ \E v \in StackValues : stack' = Append(stack, v)
    /\ UNCHANGED <<pc, cast, report, before, outcome>>

\* The cast instruction is evaluated.
Evaluate ==
    /\ pc = "ready"
    /\ \E c \in Casts(stack), mismatch \in {"false", "error"} :
          LET r == evaluate(stack, c, mismatch) IN
          /\ cast' = c
          /\ report' = mismatch
          /\ before' = stack
          /\ outcome' = r.outcome
          /\ stack' = r.stack
    /\ pc' = "done"


\* ------------------------------------------------------------------------
\* Properties of Cast::evaluate (checked under Spec)
\* ------------------------------------------------------------------------

\* The inputs evaluate loaded; defined when every operand was resolved.
Loaded == pc = "done" /\ Len(cast.operands) <= Len(before)
Inputs == [i \in 1..Len(cast.operands) |-> before[i]]

\* Every operand was resolved and the destination register is unwritten.
Resolved == Loaded /\ cast.destination = Len(before) + 1

IsPlaintextOf(value, plaintext_type) ==
    value.variant = "Plaintext" /\ LiteralType(value.plaintext.type) = plaintext_type

IsAddress(value) == IsPlaintextOf(value, LiteralType("address"))
IsU64(value) == IsPlaintextOf(value, LiteralType("u64"))

\* value < 2^52, on the limbs: the top limb holds bits 48..63.
BelowTwoPow52(u) == u[4] < 16

RecordTarget == cast.value_type.variant = "Record" /\ cast.value_type.name \in RecordNames
InterfaceTarget ==
    /\ cast.value_type.variant # "Record"
    /\ cast.value_type.type.variant = "Interface"
    /\ cast.value_type.type.name \in InterfaceNames

DeclaredEntries == RecordType(cast.value_type.name).entries
DeclaredMembers == InterfaceMembers(cast.value_type.type.name)

\* Owner, then balance, then one input per declared entry, each a plaintext
\* of the declared entry type, and an unwritten destination.
RecordInputsBut(balanceToo) ==
    /\ Loaded
    /\ RecordTarget
    /\ cast.destination = Len(before) + 1
    /\ Len(Inputs) = Len(DeclaredEntries) + 2
    /\ IsAddress(Inputs[1])
    /\ balanceToo => (IsU64(Inputs[2]) /\ BelowTwoPow52(Inputs[2].plaintext.value))
    /\ \A i \in 1..Len(DeclaredEntries) : IsPlaintextOf(Inputs[i + 2], DeclaredEntries[i][2].type)

ValidRecordCast == RecordInputsBut(TRUE)

\* The record the claim expects of a valid record cast.
ExpectedRecord ==
    LET rt == RecordType(cast.value_type.name) IN
    [owner |-> IF rt.owner_public
               THEN [variant |-> "Public", value |-> Inputs[1].plaintext.value]
               ELSE [variant |-> "Private", value |-> Inputs[1].plaintext],
     balance |-> IF rt.balance_public
                 THEN [variant |-> "Public", value |-> Inputs[2].plaintext.value]
                 ELSE [variant |-> "Private", value |-> Inputs[2].plaintext],
     entries |-> [i \in 1..Len(rt.entries) |->
                    <<rt.entries[i][1],
                      [variant |-> rt.entries[i][2].variant, plaintext |-> Inputs[i + 2].plaintext]>>]]

\* C1: a record cast of [owner address, balance below 2^52, one plaintext of
\* the declared type per declared entry] succeeds and stores the record made
\* of the owner, the balance and inputs[2..] paired with the declared entries,
\* under the declared visibilities.
C1_ValidRecordCastStoresRecord ==
    ValidRecordCast =>
        /\ outcome = Ok
        /\ stack = Append(before, StackRecord(ExpectedRecord))

\* C2: when the number of inputs differs from the number of interface members
\* they are paired with (the inputs of the common prefix being plaintexts of
\* the declared types), evaluate returns an ArityError and does not panic.
C2_ArityMismatchIsArityError ==
    ( /\ Resolved
      /\ InterfaceTarget
      /\ Len(Inputs) >= 1
      /\ Len(Inputs) # Len(DeclaredMembers)
      /\ \A i \in 1..Len(Inputs) :
            i <= Len(DeclaredMembers) => IsPlaintextOf(Inputs[i], DeclaredMembers[i][2]) )
    => outcome = "ArityError"

\* C3: when evaluate fails, for whatever reason, the register stack is the
\* stack of before the call: no register has been written.
C3_FailureWritesNoRegister ==
    (pc = "done" /\ outcome # Ok) => stack = before

\* A failure in the middle of the members loop: the first member was
\* accepted, the second input is a record.
C3_Witness ==
    /\ Resolved
    /\ InterfaceTarget
    /\ Len(Inputs) = 2
    /\ IsPlaintextOf(Inputs[1], DeclaredMembers[1][2])
    /\ Inputs[2].variant = "Record"
    /\ outcome = "IllegalCastError"
    /\ stack = before

\* C4: with every other input valid, the record cast succeeds exactly when
\* input[1] is a u64 below 2^52, and fails with InvalidValueError otherwise.
C4_BalanceAcceptedIffBelowTwoPow52 ==
    RecordInputsBut(FALSE) =>
        IF IsU64(Inputs[2]) /\ BelowTwoPow52(Inputs[2].plaintext.value)
        THEN outcome = Ok
        ELSE outcome = "InvalidValueError" /\ stack = before

\* C5: when a plaintext input paired with an interface member is not of the
\* declared member type, evaluate fails with TypeMismatchError and stores
\* nothing, whether matches_register reports the mismatch as false or as an error.
C5_MismatchIsTypeMismatchError ==
    ( /\ Resolved
      /\ InterfaceTarget
      /\ Len(Inputs) = Len(DeclaredMembers)
      /\ \A i \in 1..Len(Inputs) : Inputs[i].variant = "Plaintext"
      /\ \E i \in 1..Len(Inputs) : ~IsPlaintextOf(Inputs[i], DeclaredMembers[i][2]) )
    => (outcome = "TypeMismatchError" /\ stack = before)

\* C6: a Record value supplied as an interface member input or as a record
\* entry input (the inputs before it being valid) fails the cast with
\* IllegalCastError and nothing is stored.
C6_RecordInputIsIllegalCast ==
    /\ ( /\ Resolved
         /\ InterfaceTarget
         /\ Len(Inputs) = Len(DeclaredMembers)
         /\ \E i \in 1..Len(Inputs) :
               /\ Inputs[i].variant = "Record"
               /\ \A j \in 1..(i - 1) : IsPlaintextOf(Inputs[j], DeclaredMembers[j][2]) )
       => (outcome = "IllegalCastError" /\ stack = before)
    /\ ( /\ Resolved
         /\ RecordTarget
         /\ Len(Inputs) = Len(DeclaredEntries) + 2
         /\ IsAddress(Inputs[1])
         /\ IsU64(Inputs[2]) /\ BelowTwoPow52(Inputs[2].plaintext.value)
         /\ \E i \in 1..Len(DeclaredEntries) :
               /\ Inputs[i + 2].variant = "Record"
               /\ \A j \in 1..(i - 1) : IsPlaintextOf(Inputs[j + 2], DeclaredEntries[j][2].type) )
       => (outcome = "IllegalCastError" /\ stack = before)

\* ------------------------------------------------------------------------
\* Opcode
\* ------------------------------------------------------------------------

OpcodeCast == [variant |-> "Cast"]
OpcodeLiteral(mnemonic) == [variant |-> "Literal", mnemonic |-> mnemonic]

\* Deref for Opcode: the opcode as a string.
deref(opcode) == IF opcode.variant = "Literal" THEN opcode.mnemonic ELSE "cast"

Written(text) == [returned |-> TRUE, text |-> text]
Overflowed == [returned |-> FALSE]

\* Display for Opcode: a literal opcode writes its mnemonic; for Cast,
\* write!(f, "{}", *self) formats the Opcode itself again, one frame deeper,
\* until the thread's stack is exhausted.
RECURSIVE OpcodeFmt(_, _)
OpcodeFmt(opcode, depth) ==
    IF opcode.variant = "Literal" THEN Written(opcode.mnemonic)
    ELSE IF depth >= StackFrames THEN Overflowed
    ELSE OpcodeFmt(opcode, depth + 1)

\* ------------------------------------------------------------------------
\* Cast::output_type
\* ------------------------------------------------------------------------

Typed(t) == [outcome |-> Ok, type |-> t]

\* ensure!(input_types.len() == self.operands.len(), "Instruction '{}' expects ...",
\* Self::opcode(), ...): the error is built by formatting the opcode.
CountMismatch ==
    IF OpcodeFmt(OpcodeCast, 0).returned THEN Fail("ArityError") ELSE Fail("StackOverflow")

\* interface.members().iter().zip_eq(input_types)
RECURSIVE MemberTypesLoop(_, _, _)
MemberTypesLoop(decl, types, i) ==
    IF i > Len(decl) /\ i > Len(types) THEN Ok
    ELSE IF i > Len(decl) \/ i > Len(types) THEN "Panic"
    ELSE LET member_type == decl[i][2]
             input_type == types[i]
         IN  IF input_type.variant = "Record" THEN "TypeMismatchError"
             ELSE IF member_type # input_type.type THEN "TypeMismatchError"
             ELSE MemberTypesLoop(decl, types, i + 1)

\* The input types the record entries are paired with: zip_eq(input_types).
EntryInputTypes(types) == types

\* record.entries().iter().zip_eq(input_types)
RECURSIVE EntryTypesLoop(_, _, _)
EntryTypesLoop(decl, types, i) ==
    IF i > Len(decl) /\ i > Len(types) THEN Ok
    ELSE IF i > Len(decl) \/ i > Len(types) THEN "Panic"
    ELSE LET entry_type == decl[i][2].type
             input_type == types[i]
         IN  IF input_type.variant = "Record" THEN "TypeMismatchError"
             ELSE IF entry_type # input_type.type THEN "TypeMismatchError"
             ELSE EntryTypesLoop(decl, types, i + 1)

\* The check of the input types against the target, after the count check.
CheckTarget(c, types) ==
    IF c.value_type.variant = "Record"
    THEN LET record == get_record(c.value_type.name) IN
         IF ~record.ok THEN record.error
         ELSE EntryTypesLoop(record.value.entries, EntryInputTypes(types), 1)
    ELSE IF c.value_type.type.variant = "Literal" THEN "UnsupportedCastError"
    ELSE LET interface == get_interface(c.value_type.type.name) IN
         IF ~interface.ok THEN interface.error
         ELSE MemberTypesLoop(interface.value, types, 1)

\* Cast::output_type
output_type(c, types) ==
    IF Len(types) # Len(c.operands) THEN CountMismatch
    ELSE LET checked == CheckTarget(c, types) IN
         IF checked # Ok THEN Fail(checked)
         ELSE Typed(RegisterTypeFrom(c.value_type))

\* ------------------------------------------------------------------------
\* SpecOutputType: a list of input types, then one call of output_type
\* ------------------------------------------------------------------------

RegisterTypes ==
    { RegisterPlaintext(LiteralType("address")),
      RegisterPlaintext(LiteralType("u64")),
      RegisterPlaintext(LiteralType("field")),
      RegisterRecord("token") }

TypeInit ==
    /\ input_types = << >>
    /\ type_pc = "ready"
    /\ type_cast = None
    /\ type_result = None

\* The caller collects the type of one more input register.
CollectType ==
    /\ type_pc = "ready"
    /\ Len(input_types) < MaxInputs
    /\ \E t \in RegisterTypes : input_types' = Append(input_types, t)
    /\ UNCHANGED <<type_pc, type_cast, type_result>>

\* output_type is called on a cast.
InferType ==
    /\ type_pc = "ready"
    /\ \E n \in 0..MaxInputs, vt \in ValueTypes :
          LET c == [operands |-> Operands(n), destination |-> n + 1, value_type |-> vt] IN
          /\ type_cast' = c
          /\ type_result' = output_type(c, input_types)
    /\ type_pc' = "done"
    /\ UNCHANGED input_types


\* ------------------------------------------------------------------------
\* Properties of Cast::output_type (checked under SpecOutputType)
\* ------------------------------------------------------------------------

\* C7: whenever the number of input types differs from the number of
\* operands, output_type returns an ArityError, whatever the target and the
\* input types are.
C7_CountMismatchIsArityError ==
    (type_pc = "done" /\ Len(input_types) # Len(type_cast.operands))
    => type_result.outcome = "ArityError"

TypeRecordTarget ==
    /\ type_pc = "done"
    /\ type_cast.value_type.variant = "Record"
    /\ type_cast.value_type.name \in RecordNames
    /\ Len(input_types) = Len(type_cast.operands)

TypeDeclaredEntries == RecordType(type_cast.value_type.name).entries

\* C8: for a record target with k entries and input types [t_owner,
\* t_balance, t_1..t_k], output_type returns the record's register type when
\* every t_i is the i-th declared entry type, whatever t_owner and t_balance
\* are, and fails with TypeMismatchError when some t_i differs.
C8_RecordTypesSkipOwnerAndBalance ==
    (TypeRecordTarget /\ Len(input_types) = Len(TypeDeclaredEntries) + 2)
    => IF \A i \in 1..Len(TypeDeclaredEntries) :
             input_types[i + 2] = RegisterPlaintext(TypeDeclaredEntries[i][2].type)
       THEN type_result = Typed(RegisterRecord(type_cast.value_type.name))
       ELSE type_result.outcome = "TypeMismatchError"

\* ------------------------------------------------------------------------
\* Cast::write_le and Cast::read_le
\* ------------------------------------------------------------------------

\* The encodings of the parts of a cast: an operand is a register (variant
\* byte 1, then its locator), the destination a locator, the value type a
\* variant byte and the index of its type name.
WireNames == <<"point", "token">>

NameIndex(n) == CHOOSE i \in 1..Len(WireNames) : WireNames[i] = n

OperandBytes(operand) == <<1, operand>>
RegisterBytes(register) == <<register>>
ValueTypeBytes(vt) ==
    IF vt.variant = "Record" THEN <<3, NameIndex(vt.name)>>
    ELSE << (IF vt.variant = "Constant" THEN 0 ELSE IF vt.variant = "Public" THEN 1 ELSE 2),
            NameIndex(vt.type.name) >>

RECURSIVE OperandsBytes(_)
OperandsBytes(operands) ==
    IF operands = << >> THEN << >>
    ELSE OperandBytes(Head(operands)) \o OperandsBytes(Tail(operands))

\* (self.operands.len() as u8)
AsU8(n) == n % 256

\* write_le with the bound checked against one operand more.
write_le_loose(c, writer) ==
    IF Len(c.operands) = 0 \/ Len(c.operands) > MAX_OPERANDS + 1
    THEN [result |-> "FormatError", writer |-> writer]
    ELSE [result |-> Ok,
          writer |-> writer \o <<AsU8(Len(c.operands))>> \o OperandsBytes(c.operands)
                            \o RegisterBytes(c.destination) \o ValueTypeBytes(c.value_type)]

\* ToBytes for Cast: the result and the bytes the writer holds afterwards.
write_le(c, writer) ==
    IF Len(c.operands) = 0 \/ Len(c.operands) > MAX_OPERANDS
    THEN [result |-> "FormatError", writer |-> writer]
    ELSE [result |-> Ok,
          writer |-> writer \o <<AsU8(Len(c.operands))>> \o OperandsBytes(c.operands)
                            \o RegisterBytes(c.destination) \o ValueTypeBytes(c.value_type)]

Read(v, rest) == [ok |-> TRUE, value |-> v, rest |-> rest]
ReadFailed == [ok |-> FALSE, error |-> "FormatError"]

\* Operand::read_le
ReadOperand(bytes) ==
    IF Len(bytes) >= 2 /\ bytes[1] = 1 THEN Read(bytes[2], SubSeq(bytes, 3, Len(bytes)))
    ELSE ReadFailed

\* Register::read_le
ReadRegister(bytes) ==
    IF Len(bytes) >= 1 THEN Read(bytes[1], Tail(bytes)) ELSE ReadFailed

\* ValueType::read_le
ReadValueType(bytes) ==
    IF Len(bytes) >= 2 /\ bytes[1] \in 0..3 /\ bytes[2] \in 1..Len(WireNames)
    THEN Read(IF bytes[1] = 3 THEN ValueRecord(WireNames[bytes[2]])
              ELSE [variant |-> (IF bytes[1] = 0 THEN "Constant"
                                 ELSE IF bytes[1] = 1 THEN "Public" ELSE "Private"),
                    type |-> InterfaceType(WireNames[bytes[2]])],
              SubSeq(bytes, 3, Len(bytes)))
    ELSE ReadFailed

\* for _ in 0..num_operands { operands.push(Operand::read_le(&mut reader)?) }
RECURSIVE ReadOperands(_, _, _)
ReadOperands(bytes, n, operands) ==
    IF n = 0 THEN Read(operands, bytes)
    ELSE LET operand == ReadOperand(bytes) IN
         IF ~operand.ok THEN ReadFailed
         ELSE ReadOperands(operand.rest, n - 1, Append(operands, operand.value))

\* FromBytes for Cast
read_le(bytes) ==
    IF Len(bytes) = 0 THEN ReadFailed
    ELSE LET num_operands == bytes[1] IN
         IF num_operands = 0 \/ num_operands > MAX_OPERANDS THEN ReadFailed
         ELSE LET operands == ReadOperands(Tail(bytes), num_operands, << >>) IN
              IF ~operands.ok THEN ReadFailed
              ELSE LET destination == ReadRegister(operands.rest) IN
                   IF ~destination.ok THEN ReadFailed
                   ELSE LET value_type == ReadValueType(destination.rest) IN
                        IF ~value_type.ok THEN ReadFailed
                        ELSE [ok |-> TRUE,
                              cast |-> [operands |-> operands.value,
                                        destination |-> destination.value,
                                        value_type |-> value_type.value]]

\* ------------------------------------------------------------------------
\* SpecBytes: a cast is built, written, and the bytes are read back; or
\* bytes of another origin are read
\* ------------------------------------------------------------------------

WireOperands == {0, 1}
WireValueTypes == {ValuePrivate(InterfaceType("point")), ValueRecord("token")}

\* Leading bytes of buffers that no write_le produced.
ForeignBytes == {0, 1, MAX_OPERANDS, MAX_OPERANDS + 1, 255}

WireInit ==
    /\ wire_cast = [operands |-> << >>, destination |-> 2,
                    value_type |-> ValuePrivate(InterfaceType("point"))]
    /\ buffer = << >>
    /\ wire_pc = "build"
    /\ written = None
    /\ decoded = None

\* One more operand is given to the cast, and its value type is set.
AddOperand ==
    /\ wire_pc = "build"
    /\ Len(wire_cast.operands) <= MAX_OPERANDS
    /\ \E operand \in WireOperands, vt \in WireValueTypes :
          wire_cast' = [wire_cast EXCEPT !.operands = Append(@, operand), !.value_type = vt]
    /\ UNCHANGED <<buffer, wire_pc, written, decoded>>

\* The cast is written to the (empty) writer.
WriteCast ==
    /\ wire_pc = "build"
    /\ LET w == write_le(wire_cast, buffer) IN
          /\ written' = w.result
          /\ buffer' = w.writer
    /\ wire_pc' = "written"
    /\ UNCHANGED <<wire_cast, decoded>>

\* The written bytes are read back.
ReadBack ==
    /\ wire_pc = "written"
    /\ written = Ok
    /\ decoded' = read_le(buffer)
    /\ wire_pc' = "read"
    /\ UNCHANGED <<wire_cast, buffer, written>>

\* Bytes of another origin are read: a leading count byte and what follows.
ReadForeign ==
    /\ wire_pc = "build"
    /\ wire_cast.operands = << >>
    /\ \E count \in ForeignBytes, c \in [operands : {<<0>>, <<1, 0>>}, destination : {2},
                                        value_type : WireValueTypes] :
          LET bytes == <<count>> \o OperandsBytes(c.operands) \o RegisterBytes(c.destination)
                         \o ValueTypeBytes(c.value_type) IN
          /\ buffer' = bytes
          /\ decoded' = read_le(bytes)
    /\ wire_pc' = "read"
    /\ UNCHANGED <<wire_cast, written>>


\* ------------------------------------------------------------------------
\* Properties of the binary format (checked under SpecBytes)
\* ------------------------------------------------------------------------

\* C9: a cast with 1..MAX_OPERANDS operands is written and read back as
\* itself; with 0 or more than MAX_OPERANDS operands write_le fails and writes
\* no byte; read_le fails on every buffer whose count byte is 0 or above
\* MAX_OPERANDS.
C9_RoundTripAndBounds ==
    /\ wire_pc \in {"written", "read"} /\ written # None =>
          /\ written = Ok <=> Len(wire_cast.operands) \in 1..MAX_OPERANDS
          /\ written # Ok => buffer = << >>
    /\ wire_pc = "read" /\ written = Ok => decoded = [ok |-> TRUE, cast |-> wire_cast]
    /\ wire_pc = "read" /\ (buffer[1] = 0 \/ buffer[1] > MAX_OPERANDS) => ~decoded.ok

\* A cast with the most operands allowed was written and read back.
C9_Witness ==
    /\ wire_pc = "read"
    /\ written = Ok
    /\ Len(wire_cast.operands) = MAX_OPERANDS
    /\ decoded.ok
    /\ decoded.cast = wire_cast

\* A buffer with the count byte 0 was refused.
C9_WitnessZero == wire_pc = "read" /\ written = None /\ buffer[1] = 0 /\ ~decoded.ok

\* ------------------------------------------------------------------------
\* Ledger::find_records
\* ------------------------------------------------------------------------

\* Two accounts: a private key, its view key and its address.
Accounts == {"alice", "bob"}
PrivateKey(a) == <<"private_key", a>>
ViewKey(a) == <<"view_key", a>>
Address(a) == <<"address", a>>

\* ViewKey::to_address
to_address(view_key) == <<"address", view_key[2]>>

\* GraphKey::try_from(view_key), then graph_key.sk_tag()
sk_tag_of(view_key) == <<"sk_tag", view_key[2]>>

\* PrivateKey::sk_sig
sk_sig(private_key) == <<"sk_sig", private_key[2]>>

\* N::hash_psd2(&[sk_tag, commitment])
tag(sk_tag, commitment) == <<"tag", sk_tag, commitment>>

\* Commit(commitment, Hash(COFACTOR * sk_sig * HashToGroup(commitment)))
serial_number(private_key, commitment) == <<"serial_number", sk_sig(private_key), commitment>>

contains_tag(t) == t \in tags
contains_serial_number(sn) == sn \in serial_numbers

\* Record::is_owner
is_owner(record, address, view_key) == record.owner = address

\* Record::decrypt: the plaintext record, when the ciphertext is intact.
decrypt(record, view_key) ==
    IF record.intact /\ record.owner = to_address(view_key)
    THEN Found([id |-> record.id, owner |-> record.owner, gates |-> 100])
    ELSE Failed("DecryptError")

\* No sequence is held by the consumer.
NoScan == [status |-> "None"]

FilterAll == [kind |-> "All"]
FilterSpent == [kind |-> "Spent"]
FilterUnspent == [kind |-> "Unspent"]
FilterSlowSpent(private_key) == [kind |-> "SlowSpent", private_key |-> private_key]
FilterSlowUnspent(private_key) == [kind |-> "SlowUnspent", private_key |-> private_key]

RecordsFilters ==
    {FilterAll, FilterSpent, FilterUnspent}
        \cup {FilterSlowSpent(PrivateKey(a)) : a \in Accounts}
        \cup {FilterSlowUnspent(PrivateKey(a)) : a \in Accounts}

\* Whether the filter derives a tag or serial number for each record.
Derives(filter) == filter.kind # "All"

\* The filter of the closure with the two results of the probe exchanged.
RetainedInverted(filter, sk_tag, commitment, derived, probed) ==
    IF filter.kind = "All" THEN TRUE
    ELSE IF ~derived \/ ~probed THEN FALSE
    ELSE IF filter.kind = "SlowSpent"
    THEN ~contains_serial_number(serial_number(filter.private_key, commitment))
    ELSE IF filter.kind = "SlowUnspent"
    THEN contains_serial_number(serial_number(filter.private_key, commitment))
    ELSE IF filter.kind = "Spent" THEN ~contains_tag(tag(sk_tag, commitment))
    ELSE contains_tag(tag(sk_tag, commitment))

\* The filter of the closure with Unspent keeping a commitment whose tag is
\* in the index as well.
RetainedKeepsSpent(filter, sk_tag, commitment, derived, probed) ==
    IF filter.kind = "All" THEN TRUE
    ELSE IF ~derived \/ ~probed THEN FALSE
    ELSE IF filter.kind = "SlowSpent"
    THEN contains_serial_number(serial_number(filter.private_key, commitment))
    ELSE IF filter.kind = "SlowUnspent"
    THEN ~contains_serial_number(serial_number(filter.private_key, commitment))
    ELSE IF filter.kind = "Spent" THEN contains_tag(tag(sk_tag, commitment))
    ELSE TRUE

\* `match filter { ... }` of the closure: whether the commitment is kept.
\* `derived` and `probed` tell whether the derivation and the index probe
\* returned Ok; on Err the record is skipped.
Retained(filter, sk_tag, commitment, derived, probed) ==
    IF filter.kind = "All" THEN TRUE
    ELSE IF ~derived \/ ~probed THEN FALSE
    ELSE IF filter.kind = "SlowSpent"
    THEN contains_serial_number(serial_number(filter.private_key, commitment))
    ELSE IF filter.kind = "SlowUnspent"
    THEN ~contains_serial_number(serial_number(filter.private_key, commitment))
    ELSE IF filter.kind = "Spent" THEN contains_tag(tag(sk_tag, commitment))
    ELSE ~contains_tag(tag(sk_tag, commitment))

\* The closure of flat_map on one source entry: what it yields, as a
\* sequence of no or one (commitment, record).
Closure(view_key, sk_tag, filter, entry, derived, probed) ==
    IF ~Retained(filter, sk_tag, entry.commitment, derived, probed) THEN << >>
    ELSE IF ~is_owner(entry.record, to_address(view_key), view_key) THEN << >>
    ELSE LET record == decrypt(entry.record, view_key) IN
         IF record.ok THEN << <<entry.commitment, record.value>> >> ELSE << >>

\* find_records: the sequence it returns, nothing pulled yet; or the error
\* when the graph key cannot be derived from the view key.
find_records(view_key, filter, graph_key_ok) ==
    IF graph_key_ok
    THEN [status |-> Ok, view_key |-> view_key, address |-> to_address(view_key),
          sk_tag |-> sk_tag_of(view_key), filter |-> filter, pos |-> 1, yielded |-> << >>]
    ELSE [status |-> "Error", view_key |-> view_key, filter |-> filter]

\* ------------------------------------------------------------------------
\* SpecLedger: records are committed and spent; find_records scans them
\* ------------------------------------------------------------------------

LedgerInit ==
    /\ records = << >>
    /\ tags = {}
    /\ serial_numbers = {}
    /\ scan = NoScan
    /\ failed = {}

\* A record of some owner is committed to the ledger.
CommitRecord ==
    /\ scan = NoScan
    /\ Len(records) < MaxRecords
    /\ \E a \in Accounts, intact \in BOOLEAN :
          records' = Append(records,
              [commitment |-> <<"commitment", Len(records) + 1>>,
               record |-> [id |-> Len(records) + 1, owner |-> Address(a), intact |-> intact]])
    /\ UNCHANGED <<tags, serial_numbers, scan, failed>>

OwnerOf(entry) == CHOOSE a \in Accounts : Address(a) = entry.record.owner

\* The owner of a record spends it: its tag and serial number enter the indexes.
SpendRecord ==
    /\ scan = NoScan
    /\ \E i \in 1..Len(records) :
          LET entry == records[i]
              a == OwnerOf(entry)
          IN  /\ tag(sk_tag_of(ViewKey(a)), entry.commitment) \notin tags
              /\ tags' = tags \cup {tag(sk_tag_of(ViewKey(a)), entry.commitment)}
              /\ serial_numbers' =
                     serial_numbers \cup {serial_number(PrivateKey(a), entry.commitment)}
    /\ UNCHANGED <<records, scan, failed>>

\* find_records is called.
FindRecords ==
    /\ scan = NoScan
    /\ \E a \in Accounts, filter \in RecordsFilters, graph_key_ok \in BOOLEAN :
          scan' = find_records(ViewKey(a), filter, graph_key_ok)
    /\ failed' = {}
    /\ UNCHANGED <<records, tags, serial_numbers>>

\* A flat_map that hands what a closure produced out ahead of what was
\* handed out before.
AdvancePrepend(s, produced) ==
    [s EXCEPT !.pos = @ + 1, !.yielded = produced \o @]

\* `self.records().flat_map(..)`: the source iterator moves one entry on and
\* what the closure produced for the entry (nothing or one pair) is handed to
\* the consumer after everything handed out before.
Advance(s, produced) ==
    [s EXCEPT !.pos = @ + 1, !.yielded = @ \o produced]

\* The consumer pulls: the closure runs on the next source entry.
PullRecord ==
    /\ scan.status = Ok
    /\ scan.pos <= Len(records)
    /\ \E derived \in BOOLEAN, probed \in BOOLEAN :
          /\ ~Derives(scan.filter) => (derived /\ probed)
          /\ ~derived => probed
          /\ scan' = Advance(scan, Closure(scan.view_key, scan.sk_tag, scan.filter,
                                            records[scan.pos], derived, probed))
          /\ failed' = IF derived /\ probed THEN failed ELSE failed \cup {scan.pos}
    /\ UNCHANGED <<records, tags, serial_numbers>>

\* The consumer drops the sequence (or the error).
DropScan ==
    /\ scan # NoScan
    /\ scan' = NoScan
    /\ failed' = {}
    /\ UNCHANGED <<records, tags, serial_numbers>>


\* ------------------------------------------------------------------------
\* Properties of find_records (checked under SpecLedger)
\* ------------------------------------------------------------------------

ScanDone == scan.status = Ok /\ scan.pos > Len(records)

\* Whether the filter keeps a commitment, on the ledger's indexes.
Keeps(filter, view_key, commitment) ==
    CASE filter.kind = "All" -> TRUE
      [] filter.kind = "Spent" -> <<"tag", <<"sk_tag", view_key[2]>>, commitment>> \in tags
      [] filter.kind = "Unspent" -> <<"tag", <<"sk_tag", view_key[2]>>, commitment>> \notin tags
      [] filter.kind = "SlowSpent" ->
            <<"serial_number", <<"sk_sig", filter.private_key[2]>>, commitment>> \in serial_numbers
      [] filter.kind = "SlowUnspent" ->
            <<"serial_number", <<"sk_sig", filter.private_key[2]>>, commitment>> \notin serial_numbers

\* The source entry is owned by the scanning key and decrypts under it.
OwnedAndReadable(view_key, entry) ==
    entry.record.owner = <<"address", view_key[2]>> /\ entry.record.intact

PlaintextOf(entry) == [id |-> entry.record.id, owner |-> entry.record.owner, gates |-> 100]

\* The source entries, in order, from position i on, that are to be yielded.
RECURSIVE ExpectedFrom(_)
ExpectedFrom(i) ==
    IF i > Len(records) THEN << >>
    ELSE (IF /\ i \notin failed
             /\ Keeps(scan.filter, scan.view_key, records[i].commitment)
             /\ OwnedAndReadable(scan.view_key, records[i])
          THEN << <<records[i].commitment, PlaintextOf(records[i])>> >>
          ELSE << >>) \o ExpectedFrom(i + 1)

C10_WitnessSpent ==
    /\ ScanDone
    /\ scan.filter = FilterSpent
    /\ scan.view_key = ViewKey("alice")
    /\ Len(records) = 1
    /\ OwnedAndReadable(ViewKey("alice"), records[1])
    /\ tags = {}
    /\ failed = {}
    /\ scan.yielded = << >>


\* The filters whose closure uses the sk_tag of the graph key.
NeedsGraphKey(filter) == filter.kind \in {"Spent", "Unspent"}

\* Each source entry already consumed on which nothing failed and which the
\* filter keeps, the key owns and the key decrypts has been yielded.
PassingRecordsYielded ==
    scan.status = Ok =>
        \A i \in 1..(scan.pos - 1) :
            (/\ i \notin failed
             /\ Keeps(scan.filter, scan.view_key, records[i].commitment)
             /\ OwnedAndReadable(scan.view_key, records[i]))
                => \E j \in 1..Len(scan.yielded) :
                      scan.yielded[j] = <<records[i].commitment, PlaintextOf(records[i])>>

\* C12: no derivation, probe or decryption failure aborts a scan: at every
\* point of a scan each source entry already consumed on which nothing
\* failed and which passes filter, ownership and decryption has been
\* yielded, whatever failed on the other entries; and find_records returns
\* an error for a failed graph key derivation only under a filter that needs
\* the sk_tag (Spent, Unspent).
C12_FailureSkipsOnlyItsRecord ==
    /\ PassingRecordsYielded
    /\ scan.status = "Error" => NeedsGraphKey(scan.filter)

\* The position in the source of the entry with this commitment.
SourceIndex(commitment) ==
    CHOOSE i \in 1..Len(records) : records[i].commitment = commitment

\* What a scan has produced so far comes from the consumed part of the
\* source, in the source's order and without repetition, and no more than
\* the whole source has been consumed.
InSourceOrder ==
    scan.status = Ok =>
        /\ scan.pos \in 1..(Len(records) + 1)
        /\ Len(scan.yielded) <= scan.pos - 1
        /\ \A j \in 1..Len(scan.yielded) :
              \E i \in 1..(scan.pos - 1) : scan.yielded[j][1] = records[i].commitment
        /\ \A j, k \in 1..Len(scan.yielded) :
              j < k => SourceIndex(scan.yielded[j][1]) < SourceIndex(scan.yielded[k][1])

\* A call of find_records starts at the head of the source with nothing
\* produced; a pull consumes exactly the next source entry of the ledger as
\* it is and produces nothing or that entry.
ScanStep ==
    /\ (scan.status # Ok /\ scan'.status = Ok) =>
           /\ scan'.pos = 1
           /\ scan'.yielded = << >>
    /\ (scan.status = Ok /\ scan'.status = Ok) =>
           /\ scan.pos <= Len(records)
           /\ records' = records
           /\ scan'.pos = scan.pos + 1
           /\ \/ scan'.yielded = scan.yielded
              \/ /\ Len(scan'.yielded) = Len(scan.yielded) + 1
                 /\ SubSeq(scan'.yielded, 1, Len(scan.yielded)) = scan.yielded
                 /\ scan'.yielded[Len(scan'.yielded)][1] = records[scan.pos].commitment

\* C13: the sequence produced by find_records is a subsequence of the
\* source's iteration order: pulled elements are in the source's relative
\* order, each source entry is yielded at most once per scan, the scan ends
\* after at most |source| entries have been consumed, and a new call of
\* find_records scans the source from its start on the ledger as it is then.
C13_SubsequenceOfSource == []InSourceOrder /\ [][ScanStep]_ledgerVars

\* A finished scan of two records of the scanning key: both were yielded, in
\* the order of the source, after two entries were consumed.
C13_Witness ==
    /\ ScanDone
    /\ Len(records) = 2
    /\ scan.pos = 3
    /\ Len(scan.yielded) = 2
    /\ scan.yielded[1][1] = records[1].commitment
    /\ scan.yielded[2][1] = records[2].commitment

\* ------------------------------------------------------------------------
\* SpecCompare: find_records(V, All), (V, Spent) and (V, Unspent) are each
\* pulled to the end on one ledger state
\* ------------------------------------------------------------------------

NoTrio == [status |-> "None"]

\* What the consumer collects by pulling find_records(view_key, filter) from
\* source position i to the end; `fails` are the source positions at which
\* the derivation or the index probe returns Err in this scan.
RECURSIVE Collect(_, _, _, _, _)
Collect(view_key, filter, fails, i, yielded) ==
    IF i > Len(records) THEN yielded
    ELSE Collect(view_key, filter, fails, i + 1,
                 yielded \o Closure(view_key, sk_tag_of(view_key), filter, records[i],
                                    i \notin fails, TRUE))

CompareInit == trio = NoTrio

\* The three scans of the unchanged ledger, for one view key.
CompareScans ==
    /\ scan = NoScan
    /\ trio = NoTrio
    /\ \E a \in Accounts, graph_key_ok \in BOOLEAN,
          spent_fails \in SUBSET (1..Len(records)), unspent_fails \in SUBSET (1..Len(records)) :
          trio' = IF find_records(ViewKey(a), FilterAll, graph_key_ok).status # Ok
                  THEN [status |-> "Error", view_key |-> ViewKey(a)]
                  ELSE [status |-> Ok, view_key |-> ViewKey(a),
                        all |-> Collect(ViewKey(a), FilterAll, {}, 1, << >>),
                        spent |-> Collect(ViewKey(a), FilterSpent, spent_fails, 1, << >>),
                        unspent |-> Collect(ViewKey(a), FilterUnspent, unspent_fails, 1, << >>),
                        spent_fails |-> spent_fails,
                        unspent_fails |-> unspent_fails]
    /\ UNCHANGED ledgerVars

\* The results are dropped; the ledger may change again.
ForgetScans ==
    /\ trio # NoTrio
    /\ trio' = NoTrio
    /\ UNCHANGED ledgerVars

\* ------------------------------------------------------------------------
\* Properties of the three scans (checked under SpecCompare)
\* ------------------------------------------------------------------------

Elements(seq) == {seq[i] : i \in 1..Len(seq)}

\* The source position of a yielded (commitment, record).
PositionOf(pair) == pair[1][2]

\* C11 as stated: the Spent and the Unspent results are disjoint and their
\* union is the All result, also when a tag derivation or a probe of the tag
\* index fails for some record.
C11_SpentUnspentPartitionAll ==
    trio.status = Ok =>
        /\ Elements(trio.spent) \cap Elements(trio.unspent) = {}
        /\ Elements(trio.spent) \cup Elements(trio.unspent) = Elements(trio.all)

\* C11 (amended): the Spent and the Unspent results are disjoint, both are
\* part of the All result, and every record of the All result on which no
\* tag derivation or probe failed in the Spent and the Unspent scan is in one
\* of the two; a record on which one failed is skipped by that scan.
C11_PartitionWhereNothingFailed ==
    trio.status = Ok =>
        /\ Elements(trio.spent) \cap Elements(trio.unspent) = {}
        /\ Elements(trio.spent) \cup Elements(trio.unspent) \subseteq Elements(trio.all)
        /\ \A pair \in Elements(trio.all) :
              PositionOf(pair) \notin (trio.spent_fails \cup trio.unspent_fails)
                  => pair \in Elements(trio.spent) \cup Elements(trio.unspent)

\* A spent and an unspent record of the scanning key, nothing failed: one in
\* each result, both in the All result.
C11_Witness ==
    /\ trio.status = Ok
    /\ trio.spent_fails = {} /\ trio.unspent_fails = {}
    /\ Len(trio.all) = 2
    /\ Len(trio.spent) = 1
    /\ Len(trio.unspent) = 1
    /\ trio.spent # trio.unspent

\* ------------------------------------------------------------------------
\* SpecDisplay: an Opcode or a Cast is formatted with Display
\* ------------------------------------------------------------------------

NoDisplay == [subject |-> "None"]

\* The opcodes that are formatted: two literal ones and Cast.
Opcodes == {OpcodeLiteral("add"), OpcodeLiteral("neg"), OpcodeCast}

\* Err(fmt::Error), returned by fmt.
FmtError == [returned |-> TRUE, error |-> TRUE]

\* Display for Cast: fmt::Error unless the operand count is in
\* 1..MAX_OPERANDS; then the opcode, the operands, "into", the destination,
\* "as" and the value type are written, the opcode through Display for
\* Opcode.
CastFmt(c) ==
    IF Len(c.operands) = 0 \/ Len(c.operands) > MAX_OPERANDS THEN FmtError
    ELSE LET head == OpcodeFmt(OpcodeCast, 0)
         IN  IF ~head.returned THEN Overflowed
             ELSE [returned |-> TRUE, error |-> FALSE,
                   text |-> <<head.text>> \o [i \in 1..Len(c.operands) |-> <<"operand", c.operands[i]>>]
                            \o <<"into", <<"register", c.destination>>, "as", <<"value_type", c.value_type>>>>]

DisplayInit == display = NoDisplay

\* format!("{}", opcode)
FormatOpcode ==
    /\ \E opcode \in Opcodes :
          display' = [subject |-> "Opcode", opcode |-> opcode, result |-> OpcodeFmt(opcode, 0)]
    /\ UNCHANGED wireVars

\* format!("{}", cast) of the cast built so far
FormatCast ==
    /\ display' = [subject |-> "Cast", cast |-> wire_cast, result |-> CastFmt(wire_cast)]
    /\ UNCHANGED wireVars

\* ------------------------------------------------------------------------
\* Properties of Display (checked under SpecDisplay)
\* ------------------------------------------------------------------------

\* C14: formatting an Opcode with Display returns, having written the string
\* that deref gives for the opcode ("cast" for Opcode::Cast), and formatting
\* a Cast with Display returns.
C14_DisplayReturnsMnemonic ==
    /\ display.subject = "Opcode" =>
           /\ display.result.returned
           /\ display.result.text = deref(display.opcode)
    /\ display.subject = "Cast" => display.result.returned

\* ------------------------------------------------------------------------
\* Specifications
\* ------------------------------------------------------------------------

vars == <<evalVars, typeVars, wireVars, ledgerVars, compareVars, displayVars>>

Init == EvalInit /\ TypeInit /\ WireInit /\ LedgerInit /\ CompareInit /\ DisplayInit

\* Cast::evaluate
Next ==
    \/ Populate /\ UNCHANGED <<typeVars, wireVars, ledgerVars, compareVars, displayVars>>
    \/ Evaluate /\ UNCHANGED <<typeVars, wireVars, ledgerVars, compareVars, displayVars>>

Spec == Init /\ [][Next]_vars

\* Cast::output_type
NextOutputType ==
    \/ CollectType /\ UNCHANGED <<evalVars, wireVars, ledgerVars, compareVars, displayVars>>
    \/ InferType /\ UNCHANGED <<evalVars, wireVars, ledgerVars, compareVars, displayVars>>

SpecOutputType == Init /\ [][NextOutputType]_vars

\* Cast::write_le and Cast::read_le
NextBytes ==
    \/ AddOperand /\ UNCHANGED <<evalVars, typeVars, ledgerVars, compareVars, displayVars>>
    \/ WriteCast /\ UNCHANGED <<evalVars, typeVars, ledgerVars, compareVars, displayVars>>
    \/ ReadBack /\ UNCHANGED <<evalVars, typeVars, ledgerVars, compareVars, displayVars>>
    \/ ReadForeign /\ UNCHANGED <<evalVars, typeVars, ledgerVars, compareVars, displayVars>>

SpecBytes == Init /\ [][NextBytes]_vars

\* Ledger::find_records
NextLedger ==
    \/ CommitRecord /\ UNCHANGED <<evalVars, typeVars, wireVars, compareVars, displayVars>>
    \/ SpendRecord /\ UNCHANGED <<evalVars, typeVars, wireVars, compareVars, displayVars>>
    \/ FindRecords /\ UNCHANGED <<evalVars, typeVars, wireVars, compareVars, displayVars>>
    \/ PullRecord /\ UNCHANGED <<evalVars, typeVars, wireVars, compareVars, displayVars>>
    \/ DropScan /\ UNCHANGED <<evalVars, typeVars, wireVars, compareVars, displayVars>>

SpecLedger == Init /\ [][NextLedger]_vars

\* The All, Spent and Unspent scans of one ledger state
NextCompare ==
    \/ CommitRecord /\ trio = NoTrio /\ UNCHANGED <<evalVars, typeVars, wireVars, compareVars, displayVars>>
    \/ SpendRecord /\ trio = NoTrio /\ UNCHANGED <<evalVars, typeVars, wireVars, compareVars, displayVars>>
    \/ CompareScans /\ UNCHANGED <<evalVars, typeVars, wireVars, displayVars>>
    \/ ForgetScans /\ UNCHANGED <<evalVars, typeVars, wireVars, displayVars>>

SpecCompare == Init /\ [][NextCompare]_vars

\* Display for Opcode and Display for Cast
NextDisplay ==
    \/ AddOperand /\ UNCHANGED <<evalVars, typeVars, ledgerVars, compareVars, displayVars>>
    \/ FormatOpcode /\ UNCHANGED <<evalVars, typeVars, ledgerVars, compareVars>>
    \/ FormatCast /\ UNCHANGED <<evalVars, typeVars, ledgerVars, compareVars>>

SpecDisplay == Init /\ [][NextDisplay]_vars

====
